---- MODULE Spec2Model ----
(***************************************************************************)
(* ChiselMesh (prototype/src/main/jni/chisel_mesh.cc): the facade that     *)
(* feeds point clouds and poses to the Chisel TSDF volume (addPoints) and  *)
(* flattens the volume's per-chunk meshes into the vertex / index buffers  *)
(* given to the renderer (updateVertices).                                 *)
(*                                                                         *)
(* The Chisel volume itself (chunk store, integrator, mesh extraction) is  *)
(* library code outside chisel_mesh.cc.  It is modelled by what the        *)
(* facade can observe of it: the set of chunks whose voxels changed since  *)
(* the last extraction (meshesToUpdate) and the Mesh Map.                  *)
(***************************************************************************)
EXTENDS Integers, Sequences, FiniteSets, TLC

VARIABLES
    status,               \* "ok", or how execution ended after undefined behaviour
    chiselMap,            \* ChiselPtr: NULL or the volume [meshes, dirty]
    projectionIntegrator, \* "default" (member default-constructed) or "configured"
    lastPointCloud,       \* the point cloud buffer: a sequence of <<x, y, z>>
    integ,                \* history: the last IntegratePointCloud call and its caller
    handed,               \* the buffers last given to SetVertices
    cleared,              \* history: whether the last Clear() removed any point
    run,                  \* history: updateVertices calls completed since the last addPoints (capped at 2)
    th                    \* the position of each thread inside addPoints (concurrent specification)

vars == <<status, chiselMap, projectionIntegrator, lastPointCloud, integ, handed, cleared, run, th>>

----------------------------------------------------------------------------
(* Bounds of the model *)

\* number of chunk ids the volume can hold
NumChunks == 2
\* largest number of complete points in one raw float buffer
MaxPoints == 2

(* Program constants *)

\* chunk edge length in voxels
chunkSize == 16
\* GLushort holds values modulo 2^16
UShortMod == 65536
\* marching cubes emits at most 5 triangles = 15 unshared vertices per voxel
VerticesPerVoxel == 15

\* a null smart pointer
NULL == [null |-> TRUE]
ChunkIds == 1..NumChunks
Threads == {"t1", "t2"}

----------------------------------------------------------------------------
(* Inputs *)

\* raw float buffers: the floats 1, 2, 3, ... of every length that holds up to
\* MaxPoints points, followed by 0..2 floats that do not complete a triple
Buffers == {[k \in 1..len |-> k] : len \in 0..(3 * MaxPoints + 2)}

\* glm::mat4 values, stored as glm stores them: a sequence of 4 columns
IdentityPose == <<<<1, 0, 0, 0>>, <<0, 1, 0, 0>>, <<0, 0, 1, 0>>, <<0, 0, 0, 1>>>>
\* rotation by 90 degrees about z, then translation by (1, 2, 3)
RigidPose == <<<<0, 1, 0, 0>>, <<-1, 0, 0, 0>>, <<0, 0, 1, 0>>, <<1, 2, 3, 1>>>>
Poses == {IdentityPose, RigidPose}

----------------------------------------------------------------------------
(* The Chisel volume, as the facade observes it *)

\* a chunk of chunkSize^3 voxels yields at most this many mesh vertices
MaxMeshVertices == chunkSize * chunkSize * chunkSize * VerticesPerVoxel

\* chisel::Mesh values: the vertex list is given by its length and VertexAt
EmptyMesh == [nverts |-> 0, indices |-> <<>>]
TriMesh == [nverts |-> 3, indices |-> <<0, 1, 2>>]
\* a densely meshed chunk, of which the entries around the 16-bit limit are kept
DenseMesh == [nverts |-> MaxMeshVertices, indices |-> <<21844, 21845>>]
MeshShapes == {EmptyMesh, TriMesh, DenseMesh}

\* meshes.second->vertices[index]: the vertex lies inside its chunk
VertexAt(c, m, index) == <<(100 * c) + (index % 7), index % 5, index % 3>>

\* new Chisel(...): no chunks, no meshes
NewChisel == [meshes |-> [c \in ChunkIds |-> NULL], dirty |-> {}]

\* the chunk ids that have an entry in the Mesh Map
Keys(meshes) == {c \in ChunkIds : meshes[c] # NULL}

\* the order in which a loop over a Mesh Map with these keys visits them: a
\* function of the key set, taken to be ascending
RECURSIVE IterationOrder(_)
IterationOrder(keys) ==
    IF keys = {} THEN <<>>
    ELSE LET c == CHOOSE x \in keys : \A y \in keys : x <= y
         IN <<c>> \o IterationOrder(keys \ {c})

\* Chisel::IntegratePointCloud: the voxels of the chunks the rays touch change
IntegratePointCloud(cm, cloud, touched) == [cm EXCEPT !.dirty = cm.dirty \cup touched]

\* the chunks an integration of this cloud may touch
Touchable(cloud) == IF cloud = <<>> THEN {{}} ELSE SUBSET ChunkIds

\* Chisel::UpdateMeshes: re-extract the meshes of the changed chunks, then
\* forget them
UpdateMeshes(cm, gen) ==
    [meshes |-> [c \in ChunkIds |-> IF c \in cm.dirty THEN gen[c] ELSE cm.meshes[c]],
     dirty |-> {}]

----------------------------------------------------------------------------
(* addPoints *)

\* lastPointCloud->Clear()
ClearCloud_keep(cloud) == cloud
ClearCloud(cloud) == <<>>

\* int vertexCount = vertices.size() / 3
VertexCount(vertices) == Len(vertices) \div 3

\* chisel::Vec3 vec3(vertices[i * 3], vertices[i * 3 + 1], vertices[i * 3 + 2])
PointAt_nostride(vertices, i) == <<vertices[i + 1], vertices[i + 2], vertices[i + 3]>>
PointAt(vertices, i) == <<vertices[i * 3 + 1], vertices[i * 3 + 2], vertices[i * 3 + 3]>>

\* for (int i = 0; i < vertexCount; ++i) lastPointCloud->AddPoint(vec3)
FillCloud(cloud, vertices) ==
    cloud \o [n \in 1..VertexCount(vertices) |-> PointAt(vertices, n - 1)]

\* transformation[j][k] of a glm::mat4: column j, row k
GlmAt(m, j, k) == m[j + 1][k + 1]

\* extrinsic(j, k) = transformation[j][k]; for an Eigen transform (j, k) is row j, column k
CopyTransform(transformation) ==
    [jk \in (0..3) \X (0..3) |-> GlmAt(transformation, jk[1], jk[2])]

NoInteg == [called |-> FALSE]

\* what dereferencing the null chiselMap can end in
NullDerefOutcomes == {"crashed", "corrupted"}

----------------------------------------------------------------------------
(* updateVertices *)

\* a value stored in a GLushort
ToUShort(n) == n % UShortMod

\* indices.push_back(index*3); indices.push_back(index*3+1); indices.push_back(index*3+2)
IndexEntries_short(index) == <<ToUShort(index * 3), ToUShort(index * 3 + 1)>>
IndexEntries(index) == <<ToUShort(index * 3), ToUShort(index * 3 + 1), ToUShort(index * 3 + 2)>>

\* mesh.push_back(vertices[index](0)); ...(1)); ...(2))
VertexEntries(c, m, index) ==
    <<VertexAt(c, m, index)[1], VertexAt(c, m, index)[2], VertexAt(c, m, index)[3]>>

\* std::vector<GLfloat> mesh; std::vector<GLushort> indices: fresh and empty in every call
InitialBuffers_stale == [mesh |-> handed.mesh, indices |-> handed.indices]
InitialBuffers == [mesh |-> <<>>, indices |-> <<>>]

\* the body of the inner loop
EmitEntry(c, m, index, acc) ==
    [mesh |-> acc.mesh \o VertexEntries(c, m, index),
     indices |-> acc.indices \o IndexEntries(index)]

\* for (size_t &index : meshes.second->indices)
RECURSIVE FlattenMesh(_, _, _, _)
FlattenMesh(c, m, idxs, acc) ==
    IF idxs = <<>> THEN acc
    ELSE FlattenMesh(c, m, Tail(idxs), EmitEntry(c, m, Head(idxs), acc))

\* for (const std::pair<ChunkID, MeshPtr> &meshes : meshMap)
RECURSIVE FlattenMap(_, _, _)
FlattenMap(order, meshMap, acc) ==
    IF order = <<>> THEN acc
    ELSE LET c == Head(order)
         IN FlattenMap(Tail(order), meshMap,
                       FlattenMesh(c, meshMap[c], meshMap[c].indices, acc))

\* SetVertices(mesh, indices): the renderer's vertices_ and indices_
NotHanded == [set |-> FALSE, mesh |-> <<>>, indices |-> <<>>]
SetVertices(mesh, indices) == [set |-> TRUE, mesh |-> mesh, indices |-> indices]

----------------------------------------------------------------------------
(* Construction *)

IdleThread ==
    [pc |-> "idle", vertices |-> <<>>, transformation |-> IdentityPose, i |-> 0,
     clean |-> TRUE]

\* ChiselMesh::ChiselMesh(): the volume and the integrator are created
DefaultConstructor ==
    /\ chiselMap = NewChisel
    /\ projectionIntegrator = "configured"

\* ChiselMesh::ChiselMesh(GLenum render_mode): only render_mode_ is set
RenderModeConstructor ==
    /\ chiselMap = NULL
    /\ projectionIntegrator = "default"

\* the point cloud buffer exists and is empty after construction
NewPointCloud == <<>>

Init ==
    /\ status = "ok"
    /\ DefaultConstructor \/ RenderModeConstructor
    /\ lastPointCloud = NewPointCloud
    /\ integ = NoInteg
    /\ handed = NotHanded
    /\ cleared = FALSE
    /\ run = 0
    /\ th = [t \in Threads |-> IdleThread]

----------------------------------------------------------------------------
(* The operations, each running to completion *)

\* the call to chiselMap->IntegratePointCloud(...) and what follows it
Integrate(vertices, transformation, cloud, clean) ==
    IF chiselMap = NULL
    THEN /\ status' \in NullDerefOutcomes
         /\ UNCHANGED <<chiselMap, integ>>
    ELSE /\ \E touched \in Touchable(cloud) :
                chiselMap' = IntegratePointCloud(chiselMap, cloud, touched)
         /\ integ' = [called |-> TRUE, buf |-> vertices, pose |-> transformation,
                      cloud |-> cloud, extrinsic |-> CopyTransform(transformation),
                      clean |-> clean]
         /\ UNCHANGED status

AddPoints(vertices, transformation) ==
    /\ status = "ok"
    /\ \A t \in Threads : th[t].pc = "idle"
    /\ lastPointCloud' = FillCloud(ClearCloud(lastPointCloud), vertices)
    /\ cleared' = (lastPointCloud # <<>>)
    /\ Integrate(vertices, transformation, lastPointCloud', TRUE)
    /\ run' = 0
    /\ UNCHANGED <<projectionIntegrator, handed, th>>

UpdateVertices ==
    /\ status = "ok"
    /\ IF chiselMap = NULL
       THEN /\ status' \in NullDerefOutcomes
            /\ UNCHANGED <<chiselMap, handed, run>>
       ELSE /\ \E gen \in [chiselMap.dirty -> MeshShapes] :
                   chiselMap' = UpdateMeshes(chiselMap, gen)
            /\ LET meshMap == chiselMap'.meshes
                   out == FlattenMap(IterationOrder(Keys(meshMap)), meshMap, InitialBuffers)
               IN handed' = SetVertices(out.mesh, out.indices)
            /\ run' = IF run < 2 THEN run + 1 ELSE 2
            /\ UNCHANGED status
    /\ UNCHANGED <<projectionIntegrator, lastPointCloud, integ, cleared, th>>

Next ==
    \/ \E vertices \in Buffers, transformation \in Poses : AddPoints(vertices, transformation)
    \/ UpdateVertices

Spec == Init /\ [][Next]_vars

----------------------------------------------------------------------------
(* addPoints called from two threads with no lock: each call advances one   *)
(* clear / add-point / integrate step at a time.  updateVertices reads and  *)
(* writes neither the point cloud nor the integrator's arguments and is not *)
(* part of this specification.                                              *)

Others(t) == Threads \ {t}

\* thread t enters addPoints(vertices, transformation)
BeginAddPoints(t, vertices, transformation) ==
    /\ status = "ok"
    /\ th[t].pc = "idle"
    /\ th' = [u \in Threads |->
                IF u = t
                THEN [pc |-> "clear", vertices |-> vertices, transformation |-> transformation,
                      i |-> 0,
                      clean |-> \A o \in Others(t) : th[o].pc = "idle"]
                ELSE [th[u] EXCEPT !.clean = th[u].pc = "idle"]]
    /\ UNCHANGED <<status, chiselMap, projectionIntegrator, lastPointCloud, integ, handed,
                   cleared, run>>

\* lastPointCloud->Clear()
StepClear(t) ==
    /\ status = "ok"
    /\ th[t].pc = "clear"
    /\ lastPointCloud' = ClearCloud(lastPointCloud)
    /\ cleared' = (lastPointCloud # <<>>)
    /\ th' = [th EXCEPT ![t].pc = "fill"]
    /\ UNCHANGED <<status, chiselMap, projectionIntegrator, integ, handed, run>>

\* one iteration of the loop: lastPointCloud->AddPoint(vec3)
StepAddPoint(t) ==
    /\ status = "ok"
    /\ th[t].pc = "fill"
    /\ th[t].i < VertexCount(th[t].vertices)
    /\ lastPointCloud' = Append(lastPointCloud, PointAt(th[t].vertices, th[t].i))
    /\ th' = [th EXCEPT ![t].i = th[t].i + 1]
    /\ UNCHANGED <<status, chiselMap, projectionIntegrator, integ, handed, cleared, run>>

\* the loop has ended: copy the transform and integrate *lastPointCloud
StepIntegrate(t) ==
    /\ status = "ok"
    /\ th[t].pc = "fill"
    /\ th[t].i >= VertexCount(th[t].vertices)
    /\ Integrate(th[t].vertices, th[t].transformation, lastPointCloud, th[t].clean)
    /\ th' = [th EXCEPT ![t] = IdleThread]
    /\ run' = 0
    /\ UNCHANGED <<projectionIntegrator, lastPointCloud, handed, cleared>>

\* the calls the two threads make
ConcurrentBuffers == {<<1, 2, 3>>, <<4, 5, 6>>}

NextConcurrent ==
    \/ \E t \in Threads, vertices \in ConcurrentBuffers :
            BeginAddPoints(t, vertices, IdentityPose)
    \/ \E t \in Threads : StepClear(t)
    \/ \E t \in Threads : StepAddPoint(t)
    \/ \E t \in Threads : StepIntegrate(t)

SpecConcurrent == Init /\ [][NextConcurrent]_vars

----------------------------------------------------------------------------
(* Properties *)

\* the index-list entries of the Mesh Map, in the order updateVertices visits them
RECURSIVE EntriesInOrder(_, _)
EntriesInOrder(order, meshes) ==
    IF order = <<>> THEN <<>>
    ELSE meshes[Head(order)].indices \o EntriesInOrder(Tail(order), meshes)

\* a mesh as the extractor emits it: every vertex listed once, in order
Sequential(m) == m.indices = [n \in 1..m.nverts |-> n - 1]

\* the number of index-list entries over all meshes of the Mesh Map
RECURSIVE TotalEntries(_, _)
TotalEntries(meshes, cs) ==
    IF cs = {} THEN 0
    ELSE LET c == CHOOSE x \in cs : TRUE
         IN Len(meshes[c].indices) + TotalEntries(meshes, cs \ {c})

\* the points of a raw float buffer: one per complete (x, y, z) triple, in order
PointsOf(buf) ==
    [n \in 1..(Len(buf) \div 3) |-> <<buf[3 * n - 2], buf[3 * n - 1], buf[3 * n]>>]

\* C1: for every index-list entry i of every chunk mesh, in list order, the
\* index buffer given to SetVertices holds exactly the three entries 3i, 3i+1,
\* 3i+2, and nothing else.
C1_ThreeEntriesPerIndex ==
    handed.set =>
        LET src == EntriesInOrder(IterationOrder(Keys(chiselMap.meshes)), chiselMap.meshes)
        IN /\ Len(handed.indices) = 3 * Len(src)
           /\ \A n \in 1..Len(src) : \A d \in 0..2 :
                 handed.indices[3 * (n - 1) + d + 1] = 3 * src[n] + d

\* C2: the index buffer and the vertex buffer given to the renderer both have
\* a length that is a multiple of 3 and equal to 3 times the number of
\* index-list entries over all meshes; an empty mesh contributes nothing and
\* the call still completes.
C2_BufferLengths ==
    handed.set =>
        LET total == TotalEntries(chiselMap.meshes, Keys(chiselMap.meshes))
        IN /\ Len(handed.indices) % 3 = 0
           /\ Len(handed.mesh) % 3 = 0
           /\ Len(handed.indices) = 3 * total
           /\ Len(handed.mesh) = 3 * total
           /\ status = "ok"

\* C2 witness: buffers were handed over for a Mesh Map that holds an empty
\* mesh beside a non-empty one.
C2_Witness ==
    /\ handed.set
    /\ \E c \in ChunkIds : chiselMap.meshes[c] = EmptyMesh
    /\ Len(handed.indices) > 0

\* C3: an updateVertices call that follows another one with no addPoints call
\* between them hands over the same vertex and index buffers as the first.
C3_IdempotentReextraction ==
    [][run' = 2 => (handed'.mesh = handed.mesh /\ handed'.indices = handed.indices)]_vars

\* C3 witness: two updateVertices calls in a row have handed over non-empty buffers.
C3_Witness == run = 2 /\ Len(handed.indices) > 0

\* C4: the point cloud passed to the integrator holds exactly the points of
\* the call's raw float buffer, one per consecutive triple, in buffer order
\* (length / 3 of them), and none of an earlier call.
C4_CloudIsThisCallsPoints ==
    integ.called =>
        /\ integ.cloud = PointsOf(integ.buf)
        /\ Len(integ.cloud) = Len(integ.buf) \div 3

\* C4 witness: a call found points of an earlier call in the point cloud and
\* integrated one point, its own.
C4_Witness == integ.called /\ cleared /\ Len(integ.cloud) = 1 /\ Len(lastPointCloud) = 1

\* C5: an addPoints call whose buffer length is not a multiple of 3 is
\* rejected: the integrator is never invoked for it.
C5_MalformedRejected == integ.called => Len(integ.buf) % 3 = 0

\* C6: the transform passed to the integrator has, at every (row, column),
\* the entry the supplied pose has at that (row, column).
C6_TransformPreserved ==
    integ.called =>
        \A r \in 0..3 : \A c \in 0..3 : integ.extrinsic[<<r, c>>] = GlmAt(integ.pose, c, r)

\* C7: an addPoints call that ran with no other addPoints call in progress
\* passes its own points to the integrator.
C7_SerializedCallsIntegrateOwnPoints ==
    (integ.called /\ integ.clean) => integ.cloud = PointsOf(integ.buf)

\* C7 witness: a call that overlapped another one passed the integrator a
\* point cloud that is not its own point list.
C7_Witness == integ.called /\ ~integ.clean /\ integ.cloud # PointsOf(integ.buf)

\* C8: every entry of the index buffer is a valid offset into the vertex
\* buffer and addresses the coordinate emitted together with it:
\* vertexBuffer[indices[k]] = vertexBuffer[k].  Stated for the Mesh Maps whose
\* meshes list every vertex once, in order, as the extractor emits them.
C8_IndicesMatchVertices ==
    (handed.set /\ \A c \in Keys(chiselMap.meshes) : Sequential(chiselMap.meshes[c])) =>
        \A k \in 1..Len(handed.indices) :
            /\ handed.indices[k] < Len(handed.mesh)
            /\ handed.mesh[handed.indices[k] + 1] = handed.mesh[k]

\* C9: no index-buffer entry wraps around: 3i + 2 <= 65535 for every mesh
\* index i that updateVertices processes.
C9_NoWrap ==
    handed.set =>
        \A c \in Keys(chiselMap.meshes) :
            \A n \in 1..Len(chiselMap.meshes[c].indices) :
                3 * chiselMap.meshes[c].indices[n] + 2 <= UShortMod - 1

\* C10: after either constructor the volume object and the integrator
\* configuration exist.
C10_VolumeCreated == chiselMap # NULL /\ projectionIntegrator = "configured"

====
